---- MODULE Spec2Model ----
\* lastmod-rs: the parallel directory walk of src/main.rs, its visitor closure,
\* the shared AtomicU64 maximum and the final report.
EXTENDS Integers, Sequences, FiniteSets, TLC

\* ---------------------------------------------------------------- bounds
NumWorkers == 2
MaxTime == 6
MaxDepthArg == 1

Workers == 1..NumWorkers

\* ---------------------------------------------------------------- the scanned tree
\* r/            the root (depth 0)
\*   a           a visible file
\*   h           a hidden file (its name starts with a dot)
\*   g           a file that ignore rules may match
\*   d/          a directory
\*     e/        a directory
\*       f       a file three levels below the root
\*       l       a symbolic link (to d: a cycle, or to a file)
Nodes == {"r", "a", "h", "g", "d", "e", "f", "l"}
Dirs == {"r", "d", "e"}
Files == {"a", "h", "g", "f"}
Links == {"l"}
Root == "r"

Parent(n) ==
  CASE n \in {"a", "h", "g", "d"} -> "r"
    [] n = "e" -> "d"
    [] n \in {"f", "l"} -> "e"
    [] OTHER -> "r"

Depth(n) ==
  CASE n = "r" -> 0
    [] n \in {"a", "h", "g", "d"} -> 1
    [] n = "e" -> 2
    [] OTHER -> 3

IsHiddenName(n) == n = "h"

RECURSIVE Ancestors(_)
Ancestors(n) == IF n = Root THEN {} ELSE {Parent(n)} \cup Ancestors(Parent(n))

\* ---------------------------------------------------------------- modification times
\* What stat of an entry yields. st = "ok": the modification time is hi * 2^64 + lo
\* nanoseconds after the Unix epoch (Duration::as_nanos is a u128). "meta_err":
\* entry.metadata() fails. "mod_err": metadata.modified() fails. "pre": the
\* modification time lies before the epoch, so duration_since fails.
Stamp(hi, lo) == [st |-> "ok", hi |-> hi, lo |-> lo]
Fault(kind) == [st |-> kind, hi |-> 0, lo |-> 0]
FaultKinds == {"meta_err", "mod_err", "pre"}

BaseTime(n) ==
  CASE n = "r" -> 3
    [] n = "a" -> 2
    [] n = "h" -> 1
    [] n = "g" -> 4
    [] n = "d" -> 5
    [] n = "e" -> 1
    [] n = "f" -> 2
    [] OTHER -> 1

IgnoreSources == {"git_ignore", "git_global", "git_exclude", "ignore"}

\* The tree in which entry `newest` carries the newest modification time.
BaseTree(newest) ==
  [mtime  |-> [n \in Nodes |-> Stamp(0, IF n = newest THEN MaxTime ELSE BaseTime(n))],
   nolist |-> {},
   rules  |-> [n \in Nodes |-> IF n = "g" THEN {"git_ignore"} ELSE {}],
   absent |-> {},
   link   |-> "d"]

\* The trees the scan is run on: every choice of the newest entry; g matched by
\* each ignore-rule source; an entry whose stat fails; a directory that cannot
\* be listed; a tree with no files; a missing root; every entry modified exactly
\* at the epoch; a link to a file; a modification time of 2^64 ns or more;
\* every entry modified before the epoch.
Trees ==
  {BaseTree(n) : n \in Nodes}
  \cup {[BaseTree("g") EXCEPT !.rules["g"] = {s}] : s \in IgnoreSources}
  \cup {[BaseTree("a") EXCEPT !.mtime[n] = Fault(k)] : n \in {"f", "d", "r"}, k \in FaultKinds}
  \cup {[BaseTree("f") EXCEPT !.nolist = {n}] : n \in Dirs}
  \cup {[BaseTree(n) EXCEPT !.absent = Files \cup Links] : n \in {"r", "e"}}
  \cup {[BaseTree("a") EXCEPT !.absent = Nodes]}
  \cup {[BaseTree("a") EXCEPT !.mtime = [n \in Nodes |-> Stamp(0, 0)]]}
  \cup {[BaseTree("a") EXCEPT !.mtime = [n \in Nodes |-> Stamp(0, IF n = "r" THEN 0 ELSE BaseTime(n))],
                              !.absent = Nodes \ {"r"}]}
  \cup {[BaseTree(n) EXCEPT !.link = "a"] : n \in {"a", "l"}}
  \cup {[BaseTree("a") EXCEPT !.mtime["f"] = Stamp(1, t)] : t \in {0, 1}}
  \cup {[BaseTree("a") EXCEPT !.mtime = [n \in Nodes |-> Fault("pre")]]}

\* ---------------------------------------------------------------- command line
\* Cli: max_depth is an Option<usize>, <<>> for None and <<n>> for Some(n).
Configs ==
  [hidden : BOOLEAN, no_ignore : BOOLEAN, follow_links : BOOLEAN,
   max_depth : {<<>>} \cup {<<n>> : n \in 0..MaxDepthArg}]

\* ---------------------------------------------------------------- state
VARIABLES
  cli,        \* the parsed command line (Cli)
  tree,       \* the file tree under the root; the scan does not change it
  phase,      \* main: "start" (before run), "walk" (inside run), "done"
  stack,      \* the walker's shared work set: entries waiting for a worker
  quit,       \* the walker's quit flag, set when a visitor returns Quit
  pc,         \* each worker's position
  cur,        \* the entry each worker holds
  cand,       \* the nanos value a worker is about to merge
  max_nanos,  \* the shared AtomicU64
  ret,        \* history: the WalkStates the visitor has returned
  seen,       \* history: entries handed to the visitor as Ok
  errs,       \* history: entries for which the visitor was handed an Err
  merged,     \* history: the candidates passed to fetch_max
  out         \* what main wrote: stdout lines, stderr lines, exit status

vars == <<cli, tree, phase, stack, quit, pc, cur, cand, max_nanos, ret,
          seen, errs, merged, out>>

NanosPerSec == 1000000000

\* ---------------------------------------------------------------- the walker's configuration
\* (variant: one git source left switched on under --no-ignore)
BuilderKeepsGlobal(c) ==
  [hidden       |-> ~c.hidden,
   git_ignore   |-> ~c.no_ignore,
   git_global   |-> TRUE,
   git_exclude  |-> ~c.no_ignore,
   ignore       |-> TRUE,
   follow_links |-> c.follow_links,
   max_depth    |-> c.max_depth]

\* WalkBuilder as main configures it; `ignore` (the .ignore files) keeps the
\* builder's default, main never sets it.
Builder(c) ==
  [hidden       |-> ~c.hidden,
   git_ignore   |-> ~c.no_ignore,
   git_global   |-> ~c.no_ignore,
   git_exclude  |-> ~c.no_ignore,
   ignore       |-> TRUE,
   follow_links |-> c.follow_links,
   max_depth    |-> c.max_depth]

SourceEnabled(b, s) ==
  CASE s = "git_ignore" -> b.git_ignore
    [] s = "git_global" -> b.git_global
    [] s = "git_exclude" -> b.git_exclude
    [] OTHER -> b.ignore

\* The walker drops a child without visiting it when it is hidden and hidden
\* entries are filtered, or when a rule of an enabled source matches it.
ShouldSkipEntry(b, n) ==
  \/ b.hidden /\ IsHiddenName(n)
  \/ \E s \in tree.rules[n] : SourceEnabled(b, s)

\* (variant: the bound compared with > in place of >=)
DepthStopsLate(b, n) == Len(b.max_depth) = 1 /\ Depth(n) > b.max_depth[1]

\* A directory at depth >= max_depth is not enumerated.
DepthStops(b, n) == Len(b.max_depth) = 1 /\ Depth(n) >= b.max_depth[1]

Children(n) == {c \in Nodes \ tree.absent : c # Root /\ Parent(c) = n}

\* With follow_links the walker re-reads a symlink through the link.
Followed(b, n) == n \in Links /\ b.follow_links
IsDirEntry(b, n) == n \in Dirs \/ (Followed(b, n) /\ tree.link \in Dirs)
IsSymlinkEntry(b, n) == n \in Links /\ ~b.follow_links

\* A followed link to a directory that is one of its own ancestors is a loop.
SymlinkLoop(b, n) ==
  Followed(b, n) /\ tree.link \in Dirs /\ tree.link \in Ancestors(n)

\* entry.metadata(): lstat for an entry that was not followed, stat through the
\* link for one that was.
Metadata(b, n) == IF Followed(b, n) THEN tree.mtime[tree.link] ELSE tree.mtime[n]

\* ---------------------------------------------------------------- the visitor closure
\* (variant: a checked conversion that gives 0 when the count does not fit)
AsU64OrZero(m) == IF m.hi > 0 THEN 0 ELSE m.lo

\* duration.as_nanos() as u64: the low 64 bits of the u128 count.
AsU64(m) == m.lo

\* (variants: the closure giving up the walk on an error)
OnEntryErrQuit == "Quit"
OnMetadataErrQuit == "Quit"

\* What the closure returns for an Err entry, for a metadata error, and at its end.
OnEntryErr == "Continue"
OnMetadataErr == "Continue"
OnVisited == "Continue"

\* (variant: a time before the epoch taken as a duration of 0)
HasCandidateOrPre(m) == m.st \in {"ok", "pre"}

\* The closure finds a candidate to merge exactly when metadata, modified() and
\* duration_since all succeed.
HasCandidate(m) == m.st = "ok"

\* (variant: a plain store in place of the maximum)
FetchStoreValue(old, new) == new

\* AtomicU64::fetch_max: one atomic read-modify-write.
FetchMaxValue(old, new) == IF new > old THEN new ELSE old

Max(S) == CHOOSE x \in S : \A y \in S : y <= x

\* ---------------------------------------------------------------- initial state
NoOutput == [stdout |-> <<>>, stderr |-> <<>>, exit |-> <<>>]

Init ==
  /\ cli \in Configs
  /\ tree \in Trees
  /\ phase = "start"
  /\ stack = {}
  /\ quit = FALSE
  /\ pc = [w \in Workers |-> "get_work"]
  /\ cur = [w \in Workers |-> "-"]
  /\ cand = [w \in Workers |-> 0]
  /\ max_nanos = 0
  /\ ret = {}
  /\ seen = {}
  /\ errs = {}
  /\ merged = {}
  /\ out = NoOutput

\* ---------------------------------------------------------------- the walk
\* Where a worker goes once the visitor has returned v for the Ok entry n: a
\* directory is listed only after Continue; everything else ends the work item.
AfterVisit(n, v) ==
  IF v = "Continue" /\ IsDirEntry(Builder(cli), n) /\ ~IsSymlinkEntry(Builder(cli), n)
  THEN "read_dir" ELSE "get_work"

\* A worker that goes back for work has given up its entry.
NoEntry == "-"
Held(n, p) == IF p = "get_work" THEN NoEntry ELSE n

\* run(): the root path is read on the calling thread. A root that cannot be
\* read goes to the visitor as an Err; otherwise the root becomes the first
\* work item.
Start ==
  /\ phase = "start"
  /\ phase' = "walk"
  /\ IF Root \in tree.absent
     THEN /\ errs' = errs \cup {Root}
          /\ ret' = ret \cup {OnEntryErr}
          /\ quit' = (quit \/ OnEntryErr = "Quit")
          /\ stack' = stack
     ELSE /\ stack' = {Root}
          /\ UNCHANGED <<errs, ret, quit>>
  /\ UNCHANGED <<cli, tree, pc, cur, cand, max_nanos, seen, merged, out>>

\* A worker takes any waiting entry.
GetWork(w) ==
  /\ phase = "walk"
  /\ pc[w] = "get_work"
  /\ ~quit
  /\ \E n \in stack :
       /\ stack' = stack \ {n}
       /\ cur' = [cur EXCEPT ![w] = n]
  /\ pc' = [pc EXCEPT ![w] = "visit"]
  /\ UNCHANGED <<cli, tree, phase, quit, cand, max_nanos, ret, seen, errs, merged, out>>

\* The closure on an Ok entry, up to the atomic merge: metadata, modified(),
\* duration_since, the cast to u64.
Visit(w) ==
  /\ pc[w] = "visit"
  /\ seen' = seen \cup {cur[w]}
  /\ LET m == Metadata(Builder(cli), cur[w])
         v == IF m.st = "meta_err" THEN OnMetadataErr ELSE OnVisited
     IN IF HasCandidate(m)
        THEN /\ cand' = [cand EXCEPT ![w] = AsU64(m)]
             /\ pc' = [pc EXCEPT ![w] = "fetch_max"]
             /\ UNCHANGED <<ret, quit, cur>>
        ELSE /\ ret' = ret \cup {v}
             /\ quit' = (quit \/ v = "Quit")
             /\ pc' = [pc EXCEPT ![w] = AfterVisit(cur[w], v)]
             /\ cur' = [cur EXCEPT ![w] = Held(cur[w], pc'[w])]
             /\ cand' = cand
  /\ UNCHANGED <<cli, tree, phase, stack, max_nanos, errs, merged, out>>

\* max_nanos.fetch_max(nanos, Relaxed), then the closure returns.
FetchMax(w) ==
  /\ pc[w] = "fetch_max"
  /\ max_nanos' = FetchMaxValue(max_nanos, cand[w])
  /\ merged' = merged \cup {cand[w]}
  /\ cand' = [cand EXCEPT ![w] = 0]
  /\ ret' = ret \cup {OnVisited}
  /\ quit' = (quit \/ OnVisited = "Quit")
  /\ pc' = [pc EXCEPT ![w] = AfterVisit(cur[w], OnVisited)]
  /\ cur' = [cur EXCEPT ![w] = Held(cur[w], pc'[w])]
  /\ UNCHANGED <<cli, tree, phase, stack, seen, errs, out>>

\* The children of n the walker hands to the visitor as an Err (a followed link
\* that loops back to an ancestor), and those it turns into work items (all
\* others that the filters do not drop).
LoopChildren(n) == {c \in Children(n) : SymlinkLoop(Builder(cli), c)}
WorkChildren(n) ==
  {c \in Children(n) : ~SymlinkLoop(Builder(cli), c) /\ ~ShouldSkipEntry(Builder(cli), c)}

\* The worker lists the directory it has just visited. A listing error goes to
\* the visitor as an Err; a directory at the depth bound is not enumerated;
\* otherwise every child is looked at: a symlink loop goes to the visitor as an
\* Err, a filtered child is dropped, any other child becomes a work item.
ReadDir(w) ==
  /\ pc[w] = "read_dir"
  /\ pc' = [pc EXCEPT ![w] = "get_work"]
  /\ cur' = [cur EXCEPT ![w] = NoEntry]
  /\ IF cur[w] \in tree.nolist
     THEN /\ errs' = errs \cup {cur[w]}
          /\ ret' = ret \cup {OnEntryErr}
          /\ quit' = (quit \/ OnEntryErr = "Quit")
          /\ stack' = stack
     ELSE IF DepthStops(Builder(cli), cur[w])
     THEN UNCHANGED <<errs, ret, quit, stack>>
     ELSE /\ stack' = stack \cup WorkChildren(cur[w])
          /\ errs' = errs \cup LoopChildren(cur[w])
          /\ IF LoopChildren(cur[w]) # {}
             THEN /\ ret' = ret \cup {OnEntryErr}
                  /\ quit' = (quit \/ OnEntryErr = "Quit")
             ELSE UNCHANGED <<ret, quit>>
  /\ UNCHANGED <<cli, tree, phase, cand, max_nanos, seen, merged, out>>

\* run() returns when no entry is waiting and no worker holds one; main loads
\* the maximum and reports.
\* The line printed: the calendar time of the whole seconds; "%Y-%m-%d %H:%M:%S"
\* drops the nanoseconds within the second.
Format(secs) == [calendar_second |-> secs]

Report(nanos) ==
  IF nanos = 0
  THEN [stdout |-> <<>>, stderr |-> <<"No files found">>, exit |-> <<1>>]
  ELSE [stdout |-> <<Format(nanos \div NanosPerSec)>>, stderr |-> <<>>, exit |-> <<0>>]

\* (variant: main reads the maximum while workers may still hold entries)
FinishEarly ==
  /\ phase = "walk"
  /\ stack = {}
  /\ phase' = "done"
  /\ out' = Report(max_nanos)
  /\ UNCHANGED <<cli, tree, stack, quit, pc, cur, cand, max_nanos, ret, seen, errs, merged>>

Finish ==
  /\ phase = "walk"
  /\ stack = {} \/ quit
  /\ \A w \in Workers : pc[w] = "get_work"
  /\ phase' = "done"
  /\ out' = Report(max_nanos)
  /\ UNCHANGED <<cli, tree, stack, quit, pc, cur, cand, max_nanos, ret, seen, errs, merged>>

Next ==
  \/ Start
  \/ \E w \in Workers : GetWork(w)
  \/ \E w \in Workers : Visit(w)
  \/ \E w \in Workers : FetchMax(w)
  \/ \E w \in Workers : ReadDir(w)
  \/ Finish

Spec == Init /\ [][Next]_vars

\* The worker threads run until the walk has drained, and main then reports.
FairSpec == Spec /\ WF_vars(Next)

\* ---------------------------------------------------------------- what the claims speak of
Done == phase = "done"

\* The entries the walk is due to reach in the tree under the command line: the
\* root, and every child of a reached, listable directory above the depth bound
\* that is neither a looping link nor filtered.
RECURSIVE Reached(_)
Reached(n) ==
  /\ n \notin tree.absent
  /\ \/ n = Root
     \/ /\ Reached(Parent(n))
        /\ Parent(n) \notin tree.nolist
        /\ ~DepthStops(Builder(cli), Parent(n))
        /\ ~SymlinkLoop(Builder(cli), n)
        /\ ~ShouldSkipEntry(Builder(cli), n)

\* An entry that is a file: a regular file, or a followed link to one.
IsFileEntry(n) == n \in Files \/ (Followed(Builder(cli), n) /\ tree.link \in Files)

Readable(n) == HasCandidate(Metadata(Builder(cli), n))
Candidate(n) == AsU64(Metadata(Builder(cli), n))

\* The files accepted by the walker's rules whose modification time can be read.
QualifyingFiles == {n \in Nodes : Reached(n) /\ IsFileEntry(n) /\ Readable(n)}
MaxOver(S) == Max({Candidate(n) : n \in S} \cup {0})

NothingFound ==
  out = [stdout |-> <<>>, stderr |-> <<"No files found">>, exit |-> <<1>>]

\* ---------------------------------------------------------------- C1
\* C1: once the traversal is complete, the shared maximum equals the maximum
\* modification time among the accepted, readable files, and no other entry
\* (a directory, the root, a link that is not followed) affects it.
C1_MaxIsOverFilesOnly == Done => max_nanos = MaxOver(QualifyingFiles)

\* ---------------------------------------------------------------- C2
\* C2: whatever candidates the workers merge and however their merges
\* interleave, the shared value is the maximum of all candidates merged so far
\* and of the initial 0: no update is lost.
C2_NoLostUpdate == max_nanos = Max(merged \cup {0})

\* Two workers are about to merge different candidates, after earlier merges,
\* and one of the candidates is below the value already held.
C2_Witness ==
  \E v, w \in Workers :
    /\ v # w
    /\ pc[v] = "fetch_max" /\ pc[w] = "fetch_max"
    /\ cand[v] # cand[w]
    /\ merged # {}
    /\ cand[v] < max_nanos

\* ---------------------------------------------------------------- C3
\* C3: a scan of a root that holds no accepted file (only empty directories, or
\* only excluded content) ends with "No files found" on standard error, exit
\* status 1 and nothing on standard output.
C3_EmptyTreeFails ==
  (Done /\ {n \in Nodes : Reached(n) /\ IsFileEntry(n)} = {}) => NothingFound

\* ---------------------------------------------------------------- C4
\* C4: the outcome is the "nothing found" failure exactly when no candidate was
\* merged; merged candidates of value 0 still give success.
C4_FailsIffNothingMerged == Done => (NothingFound <=> merged = {})

\* ---------------------------------------------------------------- C5
\* C5: a metadata failure on an entry (metadata() fails, modified() fails) does
\* not abort the scan: that visit returns Continue and leaves the shared
\* maximum as it was, and at the end every other reached, readable entry has
\* been visited and has its timestamp in the result.
MetadataFails(n) == Metadata(Builder(cli), n).st \in {"meta_err", "mod_err"}

C5_MetadataFailureAbsorbed ==
  /\ [][\A w \in Workers :
          (pc[w] = "visit" /\ pc'[w] # "visit" /\ MetadataFails(cur[w]))
            => (max_nanos' = max_nanos /\ merged' = merged /\ ~quit' /\ ret' = {"Continue"})]_vars
  /\ [](Done => \A n \in Nodes :
          (Reached(n) /\ Readable(n))
            => (n \in seen /\ Candidate(n) \in merged /\ max_nanos >= Candidate(n)))

\* The scan is over, an entry whose metadata failed was visited, and other
\* entries were visited and merged.
C5_Witness ==
  /\ Done
  /\ \E n \in seen : MetadataFails(n)
  /\ \E n \in seen : Readable(n) /\ n # Root /\ Candidate(n) \in merged

\* ---------------------------------------------------------------- C6
\* C6: a directory whose children cannot be listed reaches the visitor as an
\* Err and is skipped: that step returns Continue and leaves the shared maximum
\* as it was, and the siblings and every other reached entry are still visited
\* and merged.
C6_EnumerationErrorSkipped ==
  /\ [][errs' # errs => (max_nanos' = max_nanos /\ merged' = merged /\ ~quit'
                          /\ ret' = {"Continue"})]_vars
  /\ [](Done => /\ \A n \in Nodes : Reached(n) => n \in seen
                /\ \A n \in Nodes : (Reached(n) /\ n \in Dirs /\ n \in tree.nolist) => n \in errs
                /\ \A n \in Nodes : (Reached(n) /\ Readable(n)) => Candidate(n) \in merged)

\* The scan is over, directory d could not be listed, and its sibling a was
\* visited and merged all the same.
C6_Witness ==
  /\ Done
  /\ "d" \in errs /\ "d" \in tree.nolist
  /\ "a" \in seen /\ Readable("a") /\ Candidate("a") \in merged

\* ---------------------------------------------------------------- C7
\* C7: in a tree whose only hidden entry is a hidden file newer than every
\* visible file, the scan reports the newest visible file's timestamp without
\* --hidden and the hidden file's timestamp with --hidden.
OnlyHiddenFileIsNewest ==
  /\ "h" \notin tree.absent /\ tree.mtime["h"].st = "ok" /\ tree.mtime["h"].hi = 0
  /\ \A n \in Files \ {"h"} :
       n \notin tree.absent =>
         /\ tree.mtime[n].st = "ok" /\ tree.mtime[n].hi = 0
         /\ tree.mtime[n].lo < tree.mtime["h"].lo

RootIsEnumerated ==
  Reached(Root) /\ Root \notin tree.nolist /\ ~DepthStops(Builder(cli), Root)

C7_HiddenExclusion ==
  (Done /\ OnlyHiddenFileIsNewest /\ RootIsEnumerated /\ QualifyingFiles \ {"h"} # {})
    => max_nanos = (IF cli.hidden THEN tree.mtime["h"].lo
                    ELSE MaxOver(QualifyingFiles \ {"h"}))

\* ---------------------------------------------------------------- C8
GitSources == {"git_ignore", "git_global", "git_exclude"}

\* An entry that only an ignore rule can keep out of the walk: its directory is
\* reached and enumerated, and the entry is neither hidden nor a looping link.
OnlyRulesDecide(n) ==
  /\ n # Root /\ n \notin tree.absent
  /\ tree.rules[n] # {}
  /\ ~IsHiddenName(n)
  /\ Reached(Parent(n)) /\ Parent(n) \notin tree.nolist
  /\ Len(cli.max_depth) = 1 => Depth(Parent(n)) < cli.max_depth[1]

\* C8 as stated: a file matched by an ignore rule of any source the walker
\* honours by default is left out when rules are honoured and taken in under
\* --no-ignore, which switches every source off.
C8_NoIgnoreDisablesEverySource ==
  Done => \A n \in Files :
            OnlyRulesDecide(n) => (n \in seen <=> cli.no_ignore)

\* C8 as amended: a file matched only by rules of the three git sources
\* (.gitignore, the global gitignore, .git/info/exclude) is left out when rules
\* are honoured and is visited and merged under --no-ignore; a file matched by
\* a rule of a .ignore file is left out with or without --no-ignore.
C8_NoIgnoreDisablesGitSources ==
  Done => \A n \in Files :
            OnlyRulesDecide(n) =>
              /\ ~cli.no_ignore => n \notin seen
              /\ (cli.no_ignore /\ tree.rules[n] \subseteq GitSources)
                   => (n \in seen /\ (Readable(n) => Candidate(n) \in merged))
              /\ (cli.no_ignore /\ "ignore" \in tree.rules[n]) => n \notin seen

\* The scan ran with --no-ignore, and file g, matched by a rule of the global
\* gitignore, was visited and merged.
C8_Witness ==
  /\ Done /\ cli.no_ignore
  /\ tree.rules["g"] = {"git_global"}
  /\ "g" \in seen /\ Candidate("g") \in merged /\ max_nanos = MaxTime

\* ---------------------------------------------------------------- C9
\* C9: with --max-depth N nothing deeper than N levels below the root is queued,
\* visited or merged, so a directory at depth N is not enumerated; with
\* --max-depth 1 the file f three levels down does not reach the result even
\* when it is the newest, and the file a at depth 1 does; without --max-depth
\* the walk goes all the way down to f.
TreeIsPlain == tree.nolist = {} /\ tree.absent = {}

C9_DepthLimit ==
  /\ Len(cli.max_depth) = 1 =>
       /\ \A n \in seen \cup stack \cup errs : Depth(n) <= cli.max_depth[1]
       /\ \A w \in Workers : cur[w] # NoEntry => Depth(cur[w]) <= cli.max_depth[1]
       /\ merged \subseteq
            {Candidate(n) : n \in {x \in Nodes : Depth(x) <= cli.max_depth[1] /\ Readable(x)}}
  /\ (Done /\ TreeIsPlain /\ cli.max_depth = <<1>>) =>
       /\ "f" \notin seen
       /\ "a" \in seen /\ (Readable("a") => Candidate("a") \in merged)
       /\ (tree = BaseTree("f")) => max_nanos < MaxTime
       /\ (tree = BaseTree("a")) => max_nanos = MaxTime
  /\ (Done /\ TreeIsPlain /\ cli.max_depth = <<>>) =>
       /\ "f" \in seen
       /\ Readable("f") => Candidate("f") \in merged

\* The scan ran with --max-depth 1 on the tree whose newest entry is f, three
\* levels down; a, at depth 1, was merged and d, at the bound, was visited.
C9_Witness ==
  /\ Done /\ cli.max_depth = <<1>> /\ tree = BaseTree("f")
  /\ "a" \in seen /\ "d" \in seen /\ Candidate("a") \in merged

\* ---------------------------------------------------------------- C10
\* C10: with --follow-links on a tree holding a symlink cycle the scan ends,
\* and the value reported is the maximum among the reachable files. (Here the
\* walk has met the looping link l and handed it to the visitor as an Err.)
HasCycle == "l" \notin tree.absent /\ tree.link \in Ancestors("l")

C10_CycleValue ==
  (Done /\ cli.follow_links /\ HasCycle /\ "l" \in errs)
    => max_nanos = MaxOver(QualifyingFiles)

\* The part of C10 that the walker guarantees: under fair scheduling the scan
\* of every tree, cyclic or not, reaches its end.
C10_Terminates == <>Done

\* ---------------------------------------------------------------- C11
\* C11: on an unchanged tree under an unchanged command line the report is the
\* same in every run: it is a function of the tree and the command line alone,
\* whatever the number of workers, the order of the visits and the interleaving
\* of the merges.
ReachedReadable == {n \in Nodes : Reached(n) /\ Readable(n)}

C11_ReportDeterminedByInput ==
  Done => /\ max_nanos = MaxOver(ReachedReadable)
          /\ out = Report(MaxOver(ReachedReadable))

\* A scan that visited at least five entries and merged at least three
\* different candidates has ended with the newest one, which is not the root's.
C11_Witness ==
  /\ Done
  /\ Cardinality(seen) >= 5 /\ Cardinality(merged) >= 3
  /\ max_nanos = MaxTime /\ Candidate(Root) # MaxTime
  /\ out.exit = <<0>>

\* ---------------------------------------------------------------- C12
\* C12: main reads the maximum only when no entry is waiting and every worker
\* is idle; the read comes after every merge, so the value reported is the
\* maximum of all merged candidates and nothing is merged after it.
Quiescent ==
  /\ stack = {}
  /\ \A w \in Workers : pc[w] = "get_work" /\ cur[w] = NoEntry

C12_ReadAfterAllMerges ==
  /\ [](Done => Quiescent)
  /\ [](Done => out = Report(Max(merged \cup {0})))
  /\ [][Done => (max_nanos' = max_nanos /\ merged' = merged /\ seen' = seen /\ out' = out)]_vars
  /\ [][(~Done /\ Done') => (Quiescent /\ max_nanos' = max_nanos)]_vars

\* The scan has ended after both of two workers merged: at least four entries
\* were visited and the report carries the merged maximum.
C12_Witness ==
  /\ Done /\ Quiescent
  /\ Cardinality(seen) >= 4 /\ Cardinality(merged) >= 2
  /\ out = Report(max_nanos) /\ max_nanos > 0

\* ---------------------------------------------------------------- C13
\* C13: the shared maximum starts at 0, no step of any worker lowers it, and at
\* every moment it is 0 or one of the candidates merged so far.
C13_MaxMonotone ==
  /\ max_nanos = 0
  /\ [][max_nanos' >= max_nanos]_vars
  /\ [](max_nanos = 0 \/ max_nanos \in merged)

\* A worker is about to merge a candidate below the value already held.
C13_Witness ==
  \E w \in Workers :
    pc[w] = "fetch_max" /\ cand[w] < max_nanos /\ max_nanos \in merged

\* ---------------------------------------------------------------- C14
\* C14: when the root cannot be enumerated (it is missing, or its children
\* cannot be listed) the visitor gets an Err for it, nothing is merged, and the
\* scan ends with "No files found" and exit status 1.
C14_InaccessibleRootIsEmptyResult ==
  (Done /\ Root \in errs) => (merged = {} /\ NothingFound)

\* ---------------------------------------------------------------- C15
\* C15: the candidate a visit merges is the entry's nanosecond count
\* hi * 2^64 + lo cut to its low 64 bits: the count itself when it is below
\* 2^64 (hi = 0), the count modulo 2^64 (lo) otherwise; so the file f, whose
\* modification time of 2^64 ns or more is the latest in its tree, gives a
\* candidate below those of earlier entries and does not decide the result.
Wrapped(n) == Metadata(Builder(cli), n).st = "ok" /\ Metadata(Builder(cli), n).hi > 0

C15_CandidateIsTruncatedCount ==
  /\ \A w \in Workers :
       pc[w] = "fetch_max" => cand[w] = Metadata(Builder(cli), cur[w]).lo
  /\ (Done /\ Reached("f") /\ Wrapped("f")) =>
       /\ Metadata(Builder(cli), "f").lo \in merged
       /\ max_nanos = MaxOver(ReachedReadable \ {"f"})
       /\ max_nanos > Metadata(Builder(cli), "f").lo

\* The scan has visited f, whose count is 2^64 + 1, merged the candidate 1 for
\* it, and ended with the larger candidate of an earlier entry.
C15_Witness ==
  /\ Done
  /\ "f" \in seen /\ tree.mtime["f"] = Stamp(1, 1)
  /\ 1 \in merged /\ max_nanos > 1

\* ---------------------------------------------------------------- C16
\* C16: an entry modified before the Unix epoch adds nothing: its visit returns
\* Continue and leaves the shared maximum as it was, and a scan all of whose
\* reached entries were modified before the epoch ends with "No files found".
PreEpoch(n) == Metadata(Builder(cli), n).st = "pre"

C16_PreEpochContributesNothing ==
  /\ [][\A w \in Workers :
          (pc[w] = "visit" /\ pc'[w] # "visit" /\ PreEpoch(cur[w]))
            => (max_nanos' = max_nanos /\ merged' = merged /\ ~quit'
                /\ ret' = {"Continue"} /\ pc'[w] # "fetch_max")]_vars
  /\ []((Done /\ Reached(Root) /\ \A n \in Nodes : Reached(n) => PreEpoch(n))
          => (merged = {} /\ NothingFound))

\* A scan whose entries were all modified before the epoch has visited at
\* least four of them and ended with "No files found".
C16_Witness ==
  /\ Done
  /\ Cardinality(seen) >= 4 /\ \A n \in seen : PreEpoch(n)
  /\ NothingFound

====
